---- MODULE Spec2Model ----
(***************************************************************************)
(* Model of the Track_Hacker click tracker (src/src/index.js): the         *)
(* destination validator, the GET /track capture handler, the POST         *)
(* /api/geo enrichment handler, the browser side of the bait page and the  *)
(* clicks table.                                                           *)
(*                                                                         *)
(* Representation.  A JavaScript value is a record tagged with its typeof  *)
(* class.  A JavaScript string is a sequence of tokens (each token a       *)
(* non-empty run of characters), so that parsing, canonicalisation,        *)
(* joining and length are computed and not assumed.  An SQL value is a     *)
(* JavaScript number, string or null.                                      *)
(***************************************************************************)
EXTENDS Integers, Sequences, FiniteSets, TLC

VARIABLES
  REDIRECT_DEFAULT, \* index.js:20, fixed at start-up from the environment
  now,              \* the server clock, in milliseconds
  clicks,           \* the clicks table: id -> row, for the ids inserted
  req,              \* the GET /track request the server is handling
  cookie,           \* the browser's cookie jar: value of cid, or NoCookie
  pages,            \* bait pages rendered in the browser, not yet reported
  inflight,         \* POST /api/geo requests sent and not yet handled
  last,             \* the last response the server sent
  nTrack,           \* GET /track requests received so far
  nGeo,             \* POST /api/geo requests sent so far
  nApplied,         \* id -> how many updates have changed the row
  view,             \* the response to the last read request
  startup,          \* the schema of the table and the position of startup
  vIn,              \* validator harness: the input handed to safeRedirectUrl
  vOut              \* validator harness: what the call did

vars == <<REDIRECT_DEFAULT, now, clicks, req, cookie, pages, inflight, last,
          nTrack, nGeo, nApplied, view, startup,
          vIn, vOut>>

-----------------------------------------------------------------------------
(* JavaScript values *)

JSUndef == [t |-> "undefined"]
JSNull == [t |-> "null"]
JSNum(n) == [t |-> "number", v |-> n]
JSStr(s) == [t |-> "string", v |-> s]
JSBool(b) == [t |-> "boolean", v |-> b]
JSArr(items) == [t |-> "array", v |-> items]
\* An object; str tells whether String() of it succeeds (its toString is
\* callable, as for {} and any object JSON gives without a toString key) or
\* throws a TypeError (JSON such as {"toString": 1}).
JSObj(str) == [t |-> "object", str |-> str]

\* typeof v
TypeOf(v) == IF v.t \in {"null", "array", "object"} THEN "object" ELSE v.t

\* Array.isArray(v)
IsArray(v) == v.t = "array"

\* ToBoolean(v): what `v ? a : b`, `!v` and `v || d` test
Truthy(v) ==
  CASE v.t = "undefined" -> FALSE
    [] v.t = "null" -> FALSE
    [] v.t = "number" -> v.v # 0
    [] v.t = "string" -> v.v # <<>>
    [] v.t = "boolean" -> v.v
    [] OTHER -> TRUE

Digit(d) ==
  CASE d = 0 -> "0" [] d = 1 -> "1" [] d = 2 -> "2" [] d = 3 -> "3"
    [] d = 4 -> "4" [] d = 5 -> "5" [] d = 6 -> "6" [] d = 7 -> "7"
    [] d = 8 -> "8" [] d = 9 -> "9"

RECURSIVE Dec(_)
\* The decimal digits of a natural number
Dec(n) == IF n < 10 THEN Digit(n) ELSE Dec(n \div 10) \o Digit(n % 10)

\* Number.prototype.toString
NumToString(n) == IF n < 0 THEN <<"-" \o Dec(0 - n)>> ELSE <<Dec(n)>>

RECURSIVE JoinTokens(_, _)
\* Whether String(v) throws: an object whose toString is not callable, or
\* an array holding one
StringThrows(v) ==
  CASE v.t = "object" -> ~v.str
    [] v.t = "array" -> \E i \in 1..Len(v.v) : v.v[i].t = "object" /\ ~v.v[i].str
    [] OTHER -> FALSE

\* String(v) of a value that is no array, when it does not throw
ScalarToString(v) ==
  CASE v.t = "undefined" -> <<"undefined">>
    [] v.t = "null" -> <<"null">>
    [] v.t = "number" -> NumToString(v.v)
    [] v.t = "string" -> v.v
    [] v.t = "boolean" -> IF v.v THEN <<"true">> ELSE <<"false">>
    [] OTHER -> <<"[object Object]">>

\* Array.prototype.join(','): null and undefined elements give ''
JoinTokens(items, i) ==
  IF i > Len(items) THEN <<>>
  ELSE (IF i > 1 THEN <<",">> ELSE <<>>)
       \o (IF items[i].t \in {"undefined", "null"} THEN <<>>
           ELSE ScalarToString(items[i]))
       \o JoinTokens(items, i + 1)

Join(a) == JoinTokens(a.v, 1)

\* String(v), when it does not throw
StringOf(v) == IF v.t = "array" THEN Join(v) ELSE ScalarToString(v)

-----------------------------------------------------------------------------
(* Strings and URLs *)

maxLen == 2048

\* A token standing for a run of path characters long enough to bring a
\* short URL near maxLen
Pad == "<pad>"
PadLen == maxLen - 30

TokLen(tok) == IF tok = Pad THEN PadLen ELSE Len(tok)

RECURSIVE StrLen(_)
\* String.prototype.length
StrLen(s) == IF s = <<>> THEN 0 ELSE TokLen(Head(s)) + StrLen(Tail(s))

\* ASCII lower-casing of the scheme and host tokens of the model
Lower(tok) ==
  CASE tok = "HTTP" -> "http"
    [] tok = "HTTPS" -> "https"
    [] tok = "Https" -> "https"
    [] tok = "EXAMPLE.COM" -> "example.com"
    [] tok = "Example.Com" -> "example.com"
    [] OTHER -> tok

SchemeTokens ==
  {"http", "HTTP", "https", "HTTPS", "Https", "ftp", "javascript", "mailto"}
SpecialSchemes == {"http", "https", "ftp"}
HostTokens == {"example.com", "EXAMPLE.COM", "Example.Com", "evil.test"}

ParseFailure == [ok |-> FALSE]

\* new URL(s) with no base.  A string with no scheme is a relative
\* reference and fails; a special scheme takes an optional "//", needs a
\* valid host, lower-cases it and has path "/" when none is given; another
\* scheme keeps what follows the colon as an opaque path.
URLParse(s) ==
  IF Len(s) < 2 \/ s[1] \notin SchemeTokens \/ s[2] # ":"
  THEN ParseFailure
  ELSE LET scheme == Lower(s[1])
           rest == SubSeq(s, 3, Len(s))
       IN IF scheme \in SpecialSchemes
          THEN LET r == IF rest # <<>> /\ rest[1] = "//" THEN Tail(rest)
                        ELSE rest
               IN IF r = <<>> \/ r[1] \notin HostTokens
                  THEN ParseFailure
                  ELSE [ok |-> TRUE, special |-> TRUE, scheme |-> scheme,
                        protocol |-> scheme \o ":",
                        host |-> Lower(r[1]),
                        path |-> IF Len(r) = 1 THEN <<"/">> ELSE Tail(r)]
          ELSE [ok |-> TRUE, special |-> FALSE, scheme |-> scheme,
                protocol |-> scheme \o ":",
                host |-> "",
                path |-> rest]

\* URL.prototype.toString: the serialised (canonical) URL
URLToString(u) ==
  IF u.special
  THEN <<u.scheme, ":", "//", u.host>> \o u.path
  ELSE <<u.scheme, ":">> \o u.path

\* What a call returned, or that it threw
Returned(v) == [threw |-> FALSE, value |-> v]
Threw == [threw |-> TRUE]

safeRedirectUrl_NoLengthCheck(input) ==
  IF ~Truthy(input) \/ TypeOf(input) # "string"
  THEN Returned(JSStr(REDIRECT_DEFAULT))
  ELSE LET parsed == URLParse(input.v)
       IN IF ~parsed.ok THEN Returned(JSStr(REDIRECT_DEFAULT))
          ELSE IF parsed.protocol # "http:" /\ parsed.protocol # "https:"
               THEN Returned(JSStr(REDIRECT_DEFAULT))
               ELSE Returned(JSStr(URLToString(parsed)))

\* index.js:145-159
safeRedirectUrl(input) ==
  IF ~Truthy(input) \/ TypeOf(input) # "string"
  THEN Returned(JSStr(REDIRECT_DEFAULT))
  ELSE IF StrLen(input.v) > maxLen
       THEN Returned(JSStr(REDIRECT_DEFAULT))
       ELSE LET parsed == URLParse(input.v)
            IN IF ~parsed.ok THEN Returned(JSStr(REDIRECT_DEFAULT))
               ELSE IF parsed.protocol # "http:" /\ parsed.protocol # "https:"
                    THEN Returned(JSStr(REDIRECT_DEFAULT))
                    ELSE Returned(JSStr(URLToString(parsed)))

-----------------------------------------------------------------------------
(* The clicks table *)

NumIds == 2
Ids == {"id" \o Dec(i) : i \in 1..NumIds}

\* crypto.randomBytes(16).toString('hex'): any identifier, a used one too
generateId == Ids

TicksPerSecond == 2
MaxClock == 1

\* Date.prototype.toISOString of the clock: seconds, then the milliseconds
toISOString(t) ==
  <<"T", Dec(t \div TicksPerSecond), ".", Dec(t % TicksPerSecond), "Z">>

EnrichColumns ==
  {"precise_lat", "precise_lon", "precise_accuracy_m", "precise_timestamp",
   "consented", "device_platform", "device_vendor", "device_language",
   "device_languages", "device_timezone", "device_hardware_concurrency",
   "device_memory_gb", "device_screen_w", "device_screen_h",
   "device_color_depth", "do_not_track"}

CaptureColumns ==
  {"id", "created_at", "ip", "ip_chain", "user_agent", "accept_language",
   "referrer", "dest_url", "approx_country", "approx_region", "approx_city",
   "approx_lat", "approx_lon", "approx_accuracy_km"}

Columns == CaptureColumns \cup EnrichColumns

\* CREATE TABLE clicks: what a column holds when an INSERT does not name it
ColumnDefault(c) == IF c = "consented" THEN JSNum(0) ELSE JSNull

\* insertClickStmt.run(record): the new table, or that the statement threw.
\* It throws on a duplicate primary key, and when the store fails (io).
insertClickStmt(table, record, io) ==
  IF record.id.v[1] \in DOMAIN table \/ io = "fail"
  THEN [threw |-> TRUE, table |-> table]
  ELSE [threw |-> FALSE,
        table |-> [i \in DOMAIN table \cup {record.id.v[1]} |->
                     IF i \in DOMAIN table THEN table[i]
                     ELSE [c \in Columns |->
                             IF c \in CaptureColumns THEN record[c]
                             ELSE ColumnDefault(c)]]]

updateGeoStmt_Merge(table, params, io) ==
  IF io = "fail"
  THEN [threw |-> TRUE, table |-> table, changes |-> {}]
  ELSE LET hit == {i \in DOMAIN table : JSStr(<<i>>) = params.id}
       IN [threw |-> FALSE,
           changes |-> hit,
           table |-> [i \in DOMAIN table |->
                        IF i \in hit
                        THEN [c \in Columns |->
                                IF c \in EnrichColumns /\ params[c] # JSNull
                                THEN params[c] ELSE table[i][c]]
                        ELSE table[i]]]

updateGeoStmt_Accumulate(table, params, io) ==
  IF io = "fail"
  THEN [threw |-> TRUE, table |-> table, changes |-> {}]
  ELSE LET hit == {i \in DOMAIN table : JSStr(<<i>>) = params.id}
       IN [threw |-> FALSE,
           changes |-> hit,
           table |-> [i \in DOMAIN table |->
                        IF i \in hit
                        THEN [c \in Columns |->
                                IF c = "do_not_track"
                                   /\ table[i][c] # JSNull
                                THEN JSNum(table[i][c].v + params[c].v)
                                ELSE IF c \in EnrichColumns THEN params[c]
                                ELSE table[i][c]]
                        ELSE table[i]]]

updateGeoStmt_NoWhere(table, params, io) ==
  IF io = "fail"
  THEN [threw |-> TRUE, table |-> table, changes |-> {}]
  ELSE [threw |-> FALSE,
        changes |-> DOMAIN table,
        table |-> [i \in DOMAIN table |->
                     [c \in Columns |->
                        IF c \in EnrichColumns THEN params[c]
                        ELSE table[i][c]]]]

updateGeoStmt_FirstWins(table, params, io) ==
  IF io = "fail"
  THEN [threw |-> TRUE, table |-> table, changes |-> {}]
  ELSE LET hit == {i \in DOMAIN table : JSStr(<<i>>) = params.id}
       IN [threw |-> FALSE,
           changes |-> hit,
           table |-> [i \in DOMAIN table |->
                        IF i \in hit /\ table[i].precise_timestamp = JSNull
                        THEN [c \in Columns |->
                                IF c \in EnrichColumns THEN params[c]
                                ELSE table[i][c]]
                        ELSE table[i]]]

\* updateGeoStmt.run(params): UPDATE clicks SET <the sixteen columns> WHERE
\* id = @id, one statement; the rows it changed, or that it threw (io).
updateGeoStmt(table, params, io) ==
  IF io = "fail"
  THEN [threw |-> TRUE, table |-> table, changes |-> {}]
  ELSE LET hit == {i \in DOMAIN table : JSStr(<<i>>) = params.id}
       IN [threw |-> FALSE,
           changes |-> hit,
           table |-> [i \in DOMAIN table |->
                        IF i \in hit
                        THEN [c \in Columns |->
                                IF c \in EnrichColumns THEN params[c]
                                ELSE table[i][c]]
                        ELSE table[i]]]

-----------------------------------------------------------------------------
(* GET /track *)

Sentinel == <<"view-transaction">>

\* Request headers and peer addresses
PeerDirect ==
  [xff |-> JSUndef, remoteAddress |-> JSStr(<<"203.0.113.7">>),
   userAgent |-> JSStr(<<"Mozilla/5.0">>),
   acceptLanguage |-> JSStr(<<"en-US">>), referer |-> JSUndef]
PeerProxied ==
  [xff |-> JSStr(<<" ", "198.51.100.9", " ", ",", " ", "10.0.0.1">>),
   remoteAddress |-> JSStr(<<"10.0.0.1">>),
   userAgent |-> JSStr(<<"Mozilla/5.0">>), acceptLanguage |-> JSUndef,
   referer |-> JSStr(<<"https", ":", "//", "evil.test", "/">>)]
PeerUnlisted ==
  [xff |-> JSUndef, remoteAddress |-> JSStr(<<"192.0.2.1">>),
   userAgent |-> JSStr(<<"curl/8">>), acceptLanguage |-> JSUndef,
   referer |-> JSUndef]
PeerMalformed ==
  [xff |-> JSStr(<<"unknown">>), remoteAddress |-> JSStr(<<"10.0.0.1">>),
   userAgent |-> JSUndef, acceptLanguage |-> JSUndef, referer |-> JSUndef]
PeerNoAddress ==
  [xff |-> JSUndef, remoteAddress |-> JSUndef, userAgent |-> JSUndef,
   acceptLanguage |-> JSUndef, referer |-> JSUndef]

\* GET /track requests: req.query.u with the headers and peer of the request
TrackRequest(u, peer) == [u |-> u, peer |-> peer]

\* The requests the capture specification sends: each shape of u
CaptureRequests ==
  {TrackRequest(JSUndef, PeerDirect),
   TrackRequest(JSStr(<<>>), PeerNoAddress),
   TrackRequest(JSStr(Sentinel), PeerDirect),
   TrackRequest(JSStr(<<"https", ":", "//", "example.com", "/x">>),
                PeerProxied),
   TrackRequest(JSStr(<<"HTTP", ":", "//", "EXAMPLE.COM">>), PeerUnlisted),
   TrackRequest(JSStr(<<"javascript", ":", "alert(1)">>), PeerMalformed),
   TrackRequest(JSArr(<<JSStr(Sentinel),
                        JSStr(<<"https", ":", "//", "evil.test", "/">>)>>),
                PeerMalformed),
   TrackRequest(JSObj(TRUE), PeerMalformed),
   TrackRequest(JSStr(<<"view-transaction", " ">>), PeerNoAddress)}

\* The requests the enrichment specification sends
EnrichRequests ==
  {TrackRequest(JSStr(Sentinel), PeerDirect),
   TrackRequest(JSStr(<<"https", ":", "//", "example.com", "/x">>),
                PeerProxied)}

RECURSIVE UpToComma(_)
\* s.split(',')[0]
UpToComma(s) ==
  IF s = <<>> \/ Head(s) = "," THEN <<>> ELSE <<Head(s)>> \o UpToComma(Tail(s))

RECURSIVE TrimStart(_)
TrimStart(s) == IF s # <<>> /\ Head(s) = " " THEN TrimStart(Tail(s)) ELSE s

RECURSIVE TrimEnd(_)
TrimEnd(s) ==
  IF s # <<>> /\ s[Len(s)] = " " THEN TrimEnd(SubSeq(s, 1, Len(s) - 1)) ELSE s

\* String.prototype.trim
Trim(s) == TrimEnd(TrimStart(s))

\* index.js:136-143
getClientIp(peer) ==
  IF TypeOf(peer.xff) = "string" /\ StrLen(peer.xff.v) > 0
  THEN JSStr(Trim(UpToComma(peer.xff.v)))
  ELSE IF Truthy(peer.remoteAddress) THEN peer.remoteAddress ELSE JSStr(<<>>)

\* geoip.lookup(ip), an opaque function of the address: a hit, a hit with
\* a list for region and no coordinates, a miss, or an exception
geoipLookup(ip) ==
  CASE ip = <<"203.0.113.7">> ->
         Returned([t |-> "object", str |-> TRUE,
                   country |-> JSStr(<<"US">>), region |-> JSStr(<<"CA">>),
                   city |-> JSStr(<<"San Francisco">>),
                   ll |-> JSArr(<<JSNum(37), JSNum(-122)>>),
                   accuracy |-> JSNum(5)])
    [] ip = <<"198.51.100.9">> ->
         Returned([t |-> "object", str |-> TRUE,
                   country |-> JSStr(<<"US">>),
                   region |-> JSArr(<<JSStr(<<"CA">>), JSStr(<<"NV">>)>>),
                   city |-> JSStr(<<>>),
                   ll |-> JSUndef,
                   accuracy |-> JSUndef])
    [] ip = <<"unknown">> -> Threw
    [] OTHER -> Returned(JSNull)

\* index.js:188-203: the record handed to the insert
TrackRecord(r) ==
  LET approx == r.approx
      hit == Truthy(approx)
  IN [id |-> JSStr(<<r.id>>),
      created_at |-> JSStr(r.createdAt),
      ip |-> r.ip,
      ip_chain |-> IF TypeOf(r.peer.xff) = "string" THEN r.peer.xff
                   ELSE JSStr(<<>>),
      user_agent |-> IF Truthy(r.peer.userAgent) THEN r.peer.userAgent
                     ELSE JSStr(<<>>),
      accept_language |-> IF Truthy(r.peer.acceptLanguage)
                          THEN r.peer.acceptLanguage ELSE JSStr(<<>>),
      referrer |-> IF Truthy(r.peer.referer) THEN r.peer.referer
                   ELSE JSStr(<<>>),
      dest_url |-> IF r.isImageMode THEN r.rawDest ELSE r.destUrl,
      approx_country |-> IF hit /\ Truthy(approx.country) THEN approx.country
                         ELSE JSNull,
      approx_region |-> IF hit /\ IsArray(approx.region)
                        THEN JSStr(Join(approx.region))
                        ELSE IF hit /\ Truthy(approx.region)
                             THEN JSStr(StringOf(approx.region))
                             ELSE JSNull,
      approx_city |-> IF hit /\ Truthy(approx.city) THEN approx.city
                      ELSE JSNull,
      approx_lat |-> IF hit /\ Truthy(approx.ll) THEN approx.ll.v[1]
                     ELSE JSNull,
      approx_lon |-> IF hit /\ Truthy(approx.ll) THEN approx.ll.v[2]
                     ELSE JSNull,
      approx_accuracy_km |-> IF hit /\ TypeOf(approx.accuracy) = "number"
                             THEN approx.accuracy ELSE JSNull]

Idle ==
  [pc |-> "idle", n |-> 0, u |-> JSUndef,
   peer |-> JSUndef, rawDest |-> JSUndef, isImageMode |-> FALSE,
   destUrl |-> JSUndef, id |-> "", createdAt |-> <<>>, ip |-> JSUndef,
   approx |-> JSUndef, inserts |-> 0, inserted |-> FALSE]

NoCookie == JSUndef

\* A response: its status, its Location and Set-Cookie headers, the "ok" of
\* its JSON body ("page" for the bait page, "none" for another body); for a
\* report, what the update statement did ("none" when none ran) and the
\* rows it changed
NoResponse ==
  [op |-> "none", n |-> 0, status |-> 0, location |-> JSUndef,
   setCookie |-> NoCookie, ok |-> "none", io |-> "none", changes |-> {}]

MaxTrack == 2

\* The browser sends a GET /track request; the server takes it when it
\* handles no other request.
TrackReceive(u, peer) ==
  /\ req.pc = "idle"
  /\ nTrack < MaxTrack
  /\ nTrack' = nTrack + 1
  /\ req' = [Idle EXCEPT !.pc = "received", !.n = nTrack + 1,
                         !.u = u, !.peer = peer]
  /\ UNCHANGED <<REDIRECT_DEFAULT, now, clicks, cookie, pages, inflight, last,
                 nGeo, nApplied, view, startup, vIn, vOut>>

\* index.js:168-169
RawDest(u) ==
  LET destParam == IF IsArray(u) THEN u.v[1] ELSE u
  IN IF Truthy(destParam) THEN JSStr(StringOf(destParam)) ELSE JSStr(<<>>)

DestUrl_OfRaw(rawDest) ==
  IF rawDest = JSStr(Sentinel) THEN JSNull
  ELSE safeRedirectUrl(rawDest).value

\* index.js:170-171
DestUrl(rawDest) ==
  IF rawDest = JSStr(Sentinel) THEN JSNull
  ELSE safeRedirectUrl(IF Truthy(rawDest) THEN rawDest
                       ELSE JSStr(REDIRECT_DEFAULT)).value

\* index.js:168-171: received -> validated
TrackValidate ==
  /\ req.pc = "received"
  /\ LET rawDest == RawDest(req.u)
     IN req' = [req EXCEPT !.pc = "validated", !.rawDest = rawDest,
                           !.isImageMode = (rawDest = JSStr(Sentinel)),
                           !.destUrl = DestUrl(rawDest)]
  /\ UNCHANGED <<REDIRECT_DEFAULT, now, clicks, cookie, pages, inflight, last,
                 nTrack, nGeo, nApplied, view, startup, vIn, vOut>>

\* index.js:181-186: geoip.lookup is called for a non-empty ip only, and an
\* exception is a miss
Approx(ip) ==
  IF ~Truthy(ip) THEN JSNull
  ELSE LET outcome == geoipLookup(ip.v)
       IN IF outcome.threw THEN JSNull ELSE outcome.value

\* index.js:173-186: validated -> geolocated
TrackGeolocate(id) ==
  /\ req.pc = "validated"
  /\ LET ip == getClientIp(req.peer)
     IN req' = [req EXCEPT !.pc = "geolocated", !.id = id,
                           !.createdAt = toISOString(now), !.ip = ip,
                           !.approx = Approx(ip)]
  /\ UNCHANGED <<REDIRECT_DEFAULT, now, clicks, cookie, pages, inflight, last,
                 nTrack, nGeo, nApplied, view, startup, vIn, vOut>>

\* index.js:188-209: geolocated -> persisted; a failed insert is swallowed
TrackPersist(io) ==
  /\ req.pc = "geolocated"
  /\ LET res == insertClickStmt(clicks, TrackRecord(req), io)
     IN /\ clicks' = res.table
        /\ nApplied' = [i \in DOMAIN res.table |->
                          IF i \in DOMAIN clicks THEN nApplied[i] ELSE 0]
        /\ req' = [req EXCEPT !.pc = "persisted", !.inserts = req.inserts + 1,
                              !.inserted = ~res.threw]
  /\ UNCHANGED <<REDIRECT_DEFAULT, now, cookie, pages, inflight, last,
                 nTrack, nGeo, view, startup, vIn, vOut>>

TrackResponse_CookieAlways(r) ==
  [NoResponse EXCEPT !.op = "track", !.n = r.n,
                     !.status = IF r.isImageMode THEN 200 ELSE 302,
                     !.setCookie = JSStr(<<r.id>>),
                     !.ok = IF r.isImageMode THEN "page" ELSE "none",
                     !.location = IF r.isImageMode THEN JSUndef ELSE r.destUrl]

TrackResponse_FailOnInsertError(r) ==
  IF ~r.inserted
  THEN [NoResponse EXCEPT !.op = "track", !.n = r.n, !.status = 500]
  ELSE IF r.isImageMode
       THEN [NoResponse EXCEPT !.op = "track", !.n = r.n, !.status = 200,
                               !.setCookie = JSStr(<<r.id>>), !.ok = "page"]
       ELSE [NoResponse EXCEPT !.op = "track", !.n = r.n, !.status = 302,
                               !.location = r.destUrl]

\* index.js:211-283: the bait page with the cid cookie, or the redirect
TrackResponse(r) ==
  IF r.isImageMode
  THEN [NoResponse EXCEPT !.op = "track", !.n = r.n, !.status = 200,
                          !.setCookie = JSStr(<<r.id>>), !.ok = "page"]
  ELSE [NoResponse EXCEPT !.op = "track", !.n = r.n, !.status = 302,
                          !.location = r.destUrl]

\* index.js:211-283: persisted -> presented.  A browser stores the cookie
\* of the response and runs the page.
TrackPresent ==
  /\ req.pc = "persisted"
  /\ LET res == TrackResponse(req)
     IN /\ last' = res
        /\ cookie' = IF res.setCookie # NoCookie THEN res.setCookie
                     ELSE cookie
        /\ pages' = IF res.ok = "page"
                    THEN pages \cup {[n |-> req.n, id |-> req.id]} ELSE pages
  /\ req' = Idle
  /\ UNCHANGED <<REDIRECT_DEFAULT, now, clicks, inflight, nTrack, nGeo, nApplied,
                 view, startup, vIn, vOut>>

-----------------------------------------------------------------------------
(* POST /api/geo *)

BodyFields ==
  {"lat", "lon", "accuracy", "timestamp", "consented", "platform", "vendor",
   "language", "languages", "timezone", "hardwareConcurrency",
   "deviceMemory", "screenW", "screenH", "colorDepth", "doNotTrack"}

\* A JSON object with the given fields; every other field is undefined
MkBody(o) == [f \in BodyFields |-> IF f \in DOMAIN o THEN o[f] ELSE JSUndef]

\* index.js:248-260: the device bundle the bait page reads from a browser
Device ==
  [platform |-> JSStr(<<"Linux x86_64">>), vendor |-> JSStr(<<"Google Inc.">>),
   language |-> JSStr(<<"en-US">>),
   languages |-> JSArr(<<JSStr(<<"en-US">>), JSStr(<<"en">>)>>),
   timezone |-> JSStr(<<"Europe/Paris">>), hardwareConcurrency |-> JSNum(8),
   deviceMemory |-> JSNull, screenW |-> JSNum(1920), screenH |-> JSNum(1080),
   colorDepth |-> JSNum(24), doNotTrack |-> JSBool(FALSE)]

\* index.js:268: the report of a page whose user allowed geolocation
PageGranted ==
  MkBody([lat |-> JSNum(48), lon |-> JSNum(2), accuracy |-> JSNum(30),
          timestamp |-> JSNum(1700), consented |-> JSBool(TRUE)] @@ Device)

\* index.js:271: the report of a page whose user refused
PageDenied == MkBody([consented |-> JSBool(FALSE)] @@ Device)

PageBodies == {PageGranted, PageDenied}

\* Reports any client can send.  JSON numbers are modelled by integers.
\* A position and a consent, no timestamp and no device field
ExampleReport ==
  MkBody([lat |-> JSNum(10), lon |-> JSNum(20), accuracy |-> JSNum(5),
          consented |-> JSBool(TRUE)])

\* Fields of the wrong type
MistypedReport ==
  MkBody([lat |-> JSStr(<<"10">>), lon |-> JSNull, accuracy |-> JSBool(TRUE),
          timestamp |-> JSNum(0), consented |-> JSStr(<<"no">>),
          platform |-> JSNum(5), vendor |-> JSStr(<<>>),
          language |-> JSBool(FALSE), languages |-> JSStr(<<"en">>),
          timezone |-> JSObj(TRUE), hardwareConcurrency |-> JSStr(<<"8">>),
          deviceMemory |-> JSNum(4), doNotTrack |-> JSNum(1)])

\* A position without consent, a text timestamp, a list with a null in it
PartialReport ==
  MkBody([lat |-> JSNum(1), lon |-> JSNum(0), consented |-> JSBool(FALSE),
          timestamp |-> JSStr(<<"yesterday">>),
          languages |-> JSArr(<<JSStr(<<"fr">>), JSNull, JSNum(7)>>)])

EmptyReport == MkBody(<<>>)

\* {"platform": {"toString": 1}}: String() of the platform throws
UnprintableReport == MkBody([platform |-> JSObj(FALSE)])

RawBodies ==
  {ExampleReport, MistypedReport, PartialReport, EmptyReport,
   UnprintableReport}

Bodies == PageBodies \cup RawBodies

\* The values of req.cookies.cid the model sends
CidValues == {JSUndef, JSStr(<<>>)} \cup {JSStr(<<i>>) : i \in Ids}

NumberOrNull(v) == IF TypeOf(v) = "number" THEN v ELSE JSNull
StringOrNull(v) == IF Truthy(v) THEN JSStr(StringOf(v)) ELSE JSNull

\* index.js:349-367 throws when a String() or a join() in it throws
NormalizeThrows(body) ==
  \/ \E f \in {"timestamp", "platform", "vendor", "language", "timezone"} :
       Truthy(body[f]) /\ StringThrows(body[f])
  \/ IsArray(body.languages) /\ StringThrows(body.languages)

Normalize_OptionalMarks(cid, body, t) ==
  [id |-> cid,
   precise_lat |-> NumberOrNull(body.lat),
   precise_lon |-> NumberOrNull(body.lon),
   precise_accuracy_m |-> NumberOrNull(body.accuracy),
   precise_timestamp |-> StringOrNull(body.timestamp),
   consented |-> IF Truthy(body.consented) THEN JSNum(1) ELSE JSNum(0),
   device_platform |-> StringOrNull(body.platform),
   device_vendor |-> StringOrNull(body.vendor),
   device_language |-> StringOrNull(body.language),
   device_languages |-> IF IsArray(body.languages)
                        THEN JSStr(Join(body.languages)) ELSE JSNull,
   device_timezone |-> StringOrNull(body.timezone),
   device_hardware_concurrency |-> NumberOrNull(body.hardwareConcurrency),
   device_memory_gb |-> NumberOrNull(body.deviceMemory),
   device_screen_w |-> NumberOrNull(body.screenW),
   device_screen_h |-> NumberOrNull(body.screenH),
   device_color_depth |-> NumberOrNull(body.colorDepth),
   do_not_track |-> IF Truthy(body.doNotTrack) THEN JSNum(1) ELSE JSNull]

\* index.js:349-367 and 370-378: the parameters of the update
Normalize(cid, body, t) ==
  [id |-> cid,
   precise_lat |-> NumberOrNull(body.lat),
   precise_lon |-> NumberOrNull(body.lon),
   precise_accuracy_m |-> NumberOrNull(body.accuracy),
   precise_timestamp |-> IF Truthy(body.timestamp)
                         THEN JSStr(StringOf(body.timestamp))
                         ELSE JSStr(toISOString(t)),
   consented |-> IF Truthy(body.consented) THEN JSNum(1) ELSE JSNum(0),
   device_platform |-> StringOrNull(body.platform),
   device_vendor |-> StringOrNull(body.vendor),
   device_language |-> StringOrNull(body.language),
   device_languages |-> IF IsArray(body.languages)
                        THEN JSStr(Join(body.languages)) ELSE JSNull,
   device_timezone |-> StringOrNull(body.timezone),
   device_hardware_concurrency |-> NumberOrNull(body.hardwareConcurrency),
   device_memory_gb |-> NumberOrNull(body.deviceMemory),
   device_screen_w |-> NumberOrNull(body.screenW),
   device_screen_h |-> NumberOrNull(body.screenH),
   device_color_depth |-> NumberOrNull(body.colorDepth),
   do_not_track |-> IF Truthy(body.doNotTrack) THEN JSNum(1) ELSE JSNum(0)]

GeoResult(status, ok, table, changes, io) ==
  [status |-> status, ok |-> ok, table |-> table, changes |-> changes,
   io |-> io]

apiGeo_NoCidCheck(cid, body, t, table, io) ==
  IF NormalizeThrows(body) THEN GeoResult(500, "none", table, {}, "none")
  ELSE LET res == updateGeoStmt(table, Normalize(cid, body, t), io)
       IN IF res.threw THEN GeoResult(500, "false", res.table, {}, io)
          ELSE GeoResult(200, "true", res.table, res.changes, io)

apiGeo_SwallowError(cid, body, t, table, io) ==
  IF ~Truthy(cid) THEN GeoResult(400, "false", table, {}, "none")
  ELSE IF NormalizeThrows(body) THEN GeoResult(500, "none", table, {}, "none")
  ELSE LET res == updateGeoStmt(table, Normalize(cid, body, t), io)
       IN GeoResult(200, "true", res.table, res.changes, io)

\* index.js:343-384 on the table, at time t, with the store answering io.
\* An exception outside the try block is answered by the framework: 500.
apiGeo(cid, body, t, table, io) ==
  IF ~Truthy(cid) THEN GeoResult(400, "false", table, {}, "none")
  ELSE IF NormalizeThrows(body) THEN GeoResult(500, "none", table, {}, "none")
  ELSE LET res == updateGeoStmt(table, Normalize(cid, body, t), io)
       IN IF res.threw THEN GeoResult(500, "false", res.table, {}, io)
          ELSE GeoResult(200, "true", res.table, res.changes, io)

MaxGeo == 2

\* The page of a report that no page sent
NoPage == [n |-> 0, id |-> ""]

\* index.js:244-246, 265-272: a rendered page reports once, with the cookie
\* the browser holds at that time (credentials: 'include')
PagePost(p, body) ==
  /\ p \in pages
  /\ nGeo < MaxGeo
  /\ nGeo' = nGeo + 1
  /\ pages' = pages \ {p}
  /\ inflight' = inflight \cup
       {[cid |-> cookie, body |-> body, origin |-> p]}
  /\ UNCHANGED <<REDIRECT_DEFAULT, now, clicks, req, cookie, last, nTrack, nApplied,
                 view, startup, vIn, vOut>>

\* Any client sends a report with a cookie and a body of its choice
RawPost(cid, body) ==
  /\ nGeo < MaxGeo
  /\ nGeo' = nGeo + 1
  /\ inflight' = inflight \cup
       {[cid |-> cid, body |-> body, origin |-> NoPage]}
  /\ UNCHANGED <<REDIRECT_DEFAULT, now, clicks, req, cookie, pages, last,
                 nTrack, nApplied, view, startup, vIn, vOut>>

\* index.js:343-384: the server handles one report, start to end
HandleGeo(r, io) ==
  /\ req.pc = "idle"
  /\ r \in inflight
  /\ inflight' = inflight \ {r}
  /\ LET res == apiGeo(r.cid, r.body, now, clicks, io)
     IN /\ clicks' = res.table
        /\ nApplied' = [i \in DOMAIN clicks |->
                          IF i \in res.changes THEN nApplied[i] + 1
                          ELSE nApplied[i]]
        /\ last' = [NoResponse EXCEPT !.op = "geo", !.status = res.status,
                                      !.ok = res.ok, !.io = res.io,
                                      !.changes = res.changes]
  /\ UNCHANGED <<REDIRECT_DEFAULT, now, req, cookie, pages, nTrack, nGeo,
                 view, startup, vIn, vOut>>

\* index.js:213: maxAge, the cookie expires in the browser
CookieExpire ==
  /\ cookie # NoCookie
  /\ cookie' = NoCookie
  /\ UNCHANGED <<REDIRECT_DEFAULT, now, clicks, req, pages, inflight, last,
                 nTrack, nGeo, nApplied, view, startup, vIn, vOut>>

\* Time passes
Tick ==
  /\ now < MaxClock
  /\ now' = now + 1
  /\ UNCHANGED <<REDIRECT_DEFAULT, clicks, req, cookie, pages, inflight, last,
                 nTrack, nGeo, nApplied, view, startup, vIn, vOut>>

-----------------------------------------------------------------------------
(* The system *)

\* index.js:20: process.env.REDIRECT_DEFAULT || 'https://example.com'
DefaultConfigs ==
  {<<"https", ":", "//", "example.com">>,
   <<"https", ":", "//", "example.com", "/home">>}

\* No read request was answered yet
NoView == [op |-> "none"]

\* index.js:47-130 ran: the table has every column and the statements are
\* prepared
Serving ==
  [pc |-> "serving", run |-> 1, schema |-> Columns, existingCols |-> Columns,
   k |-> 0, added |-> {}, failed |-> {}, prevAdded |-> {}, prevFailed |-> {}]

InitWith(configs, inputs) ==
  /\ REDIRECT_DEFAULT \in configs
  /\ now = 0
  /\ clicks = <<>>
  /\ req = Idle
  /\ cookie = NoCookie
  /\ pages = {}
  /\ inflight = {}
  /\ last = NoResponse
  /\ nTrack = 0
  /\ nGeo = 0
  /\ nApplied = <<>>
  /\ view = NoView
  /\ startup = Serving
  /\ vIn \in inputs
  /\ vOut = [done |-> FALSE]

Init == InitWith({<<"https", ":", "//", "example.com">>}, {JSUndef})

TrackStep ==
  \/ TrackValidate
  \/ \E id \in generateId : TrackGeolocate(id)
  \/ \E io \in {"ok", "fail"} : TrackPersist(io)
  \/ TrackPresent

GeoStep(bodies, cids) ==
  \/ \E p \in pages, body \in PageBodies : PagePost(p, body)
  \/ \E cid \in cids, body \in bodies : RawPost(cid, body)
  \/ \E r \in inflight, io \in {"ok", "fail"} : HandleGeo(r, io)

\* The enrichment specification: few captures, every report
Next ==
  \/ \E r \in EnrichRequests : TrackReceive(r.u, r.peer)
  \/ TrackStep
  \/ GeoStep(RawBodies, CidValues)
  \/ CookieExpire
  \/ Tick

Spec == Init /\ [][Next]_vars

\* The capture specification: every capture, few reports
NextCapture ==
  \/ \E r \in CaptureRequests : TrackReceive(r.u, r.peer)
  \/ TrackStep
  \/ GeoStep({EmptyReport}, {JSStr(<<"id1">>)})
  \/ CookieExpire
  \/ Tick

InitCapture == InitWith(DefaultConfigs, {JSUndef})

SpecCapture == InitCapture /\ [][NextCapture]_vars

-----------------------------------------------------------------------------
(* The destination validator alone *)

ValidatorPrefixes ==
  {<<>>} \cup {<<sch, ":">> : sch \in SchemeTokens}
         \cup {<<sch, ":", "//">> : sch \in SchemeTokens}
ValidatorHosts ==
  {<<>>, <<"exa mple">>} \cup {<<h>> : h \in HostTokens}
ValidatorPaths ==
  {<<>>, <<"/x">>, <<"/", Pad, "0123456789">>, <<"/", Pad, "0123456789", "x">>}

\* What safeRedirectUrl is called with: values that are no strings, and
\* strings with and without a scheme, a host and a path, up to maxLen + 1
ValidatorInputs ==
  {JSUndef, JSNull, JSNum(0), JSNum(5), JSBool(TRUE), JSObj(TRUE),
   JSArr(<<JSStr(<<"https", ":", "//", "example.com", "/x">>)>>),
   JSStr(Sentinel)}
  \cup {JSStr(p \o h \o t) :
          p \in ValidatorPrefixes, h \in ValidatorHosts, t \in ValidatorPaths}

InitValidator == InitWith(DefaultConfigs, ValidatorInputs)

\* One call of safeRedirectUrl
Validate ==
  /\ ~vOut.done
  /\ vOut' = [done |-> TRUE, result |-> safeRedirectUrl(vIn)]
  /\ UNCHANGED <<REDIRECT_DEFAULT, now, clicks, req, cookie, pages, inflight,
                 last, nTrack, nGeo, nApplied, view, startup, vIn>>

NextValidator == Validate

SpecValidator == InitValidator /\ [][NextValidator]_vars

\* An input that is a string of at most 2048 code units which parses as an
\* absolute URL with scheme http or https
IsHttpUrl(v) ==
  /\ v.t = "string"
  /\ StrLen(v.v) <= 2048
  /\ URLParse(v.v).ok
  /\ URLParse(v.v).scheme \in {"http", "https"}

\* C1: safeRedirectUrl never throws; for a string of at most 2048 code units
\* that parses as an absolute http or https URL it returns the canonical
\* form of that URL (same scheme, host and path, and serialising again
\* changes nothing); for every other input it returns REDIRECT_DEFAULT.
C1_ValidatorContract ==
  vOut.done =>
    /\ ~vOut.result.threw
    /\ vOut.result.value.t = "string"
    /\ IF IsHttpUrl(vIn)
       THEN LET o == vOut.result.value.v
                pin == URLParse(vIn.v)
                pout == URLParse(o)
            IN /\ pout.ok
               /\ pout.scheme = pin.scheme
               /\ pout.host = pin.host
               /\ pout.path = pin.path
               /\ URLToString(pout) = o
               /\ o = URLToString(pin)
       ELSE vOut.result.value.v = REDIRECT_DEFAULT

\* A call with a valid URL that is not in canonical form has returned
C1_Witness ==
  /\ vOut.done
  /\ IsHttpUrl(vIn)
  /\ vOut.result.value.v # vIn.v

-----------------------------------------------------------------------------
(* Capture *)

\* The capture handler alone, with the clock.  The handler is synchronous:
\* it runs from its first statement to its response without waiting for
\* anything and no other handler runs meanwhile, so a step of it that can be
\* taken is taken.
NextTrack ==
  \/ \E r \in CaptureRequests : TrackReceive(r.u, r.peer)
  \/ TrackStep
  \/ Tick

FairSpecTrack == InitCapture /\ [][NextTrack]_vars /\ WF_vars(TrackStep)

\* The step of a request that runs the insert, and the one that responds
IsPersistStep == req.pc = "geolocated" /\ req'.pc = "persisted"
IsPresentStep == req.pc = "persisted" /\ req'.pc = "idle"

\* The insert of a step added exactly one row, the one of the request
OneNewRow ==
  /\ req.id \notin DOMAIN clicks
  /\ DOMAIN clicks' = DOMAIN clicks \cup {req.id}
  /\ \A i \in DOMAIN clicks : clicks'[i] = clicks[i]

C3_CookieNamesOwnRecord ==
  [][(IsPresentStep /\ req.rawDest = JSStr(Sentinel)) =>
       /\ last'.setCookie = JSStr(<<req.id>>)
       /\ req.inserted
       /\ req.id \in DOMAIN clicks
       /\ clicks[req.id].dest_url = JSStr(Sentinel)]_vars

\* The states of a request, in order; presented is the return to idle
TrackOrder ==
  \/ req.pc = "idle" /\ req'.pc \in {"idle", "received"}
  \/ req.pc = "received" /\ req'.pc \in {"received", "validated"}
  \/ req.pc = "validated" /\ req'.pc \in {"validated", "geolocated"}
  \/ req.pc = "geolocated" /\ req'.pc \in {"geolocated", "persisted"}
  \/ req.pc = "persisted" /\ req'.pc \in {"persisted", "idle"}

-----------------------------------------------------------------------------
(* The enrichment claims, under Spec *)

\* A step in which the server handled a report, and the report it handled
IsGeoStep == inflight' # inflight /\ inflight' \subseteq inflight
Handled == CHOOSE r \in inflight \ inflight' : TRUE

\* The rows a cookie value names
Named(cid) == {i \in DOMAIN clicks : JSStr(<<i>>) = cid}

\* A step kept every row outside S, and created and deleted none
RowsKeptExcept(S) ==
  /\ DOMAIN clicks' = DOMAIN clicks
  /\ \A i \in DOMAIN clicks \ S : clicks'[i] = clicks[i]

\* The enrichment columns of a row, and of the parameters of an update
Enrichment(row) == [c \in EnrichColumns |-> row[c]]

\* C5: a report whose cid names an existing record is answered 200
\* {ok: true} and changes exactly one row, the named one, for every payload
\* (the store accepting the write)
C5_ExistingTokenSucceeds ==
  [][IsGeoStep /\ Named(Handled.cid) # {} /\ last'.io # "fail"
     => /\ last'.status = 200
        /\ last'.ok = "true"
        /\ Cardinality(last'.changes) = 1
        /\ last'.changes = Named(Handled.cid)
        /\ RowsKeptExcept(Named(Handled.cid))]_vars

\* C6: a report with no cid cookie, or an empty one, is answered 400
\* {ok: false}; no update statement runs and every record stays as it was
C6_MissingTokenRejected ==
  [][IsGeoStep /\ Handled.cid \in {JSUndef, JSStr(<<>>)}
     => /\ last'.status = 400
        /\ last'.ok = "false"
        /\ last'.io = "none"
        /\ last'.changes = {}
        /\ clicks' = clicks
        /\ nApplied' = nApplied]_vars

\* A report without token was rejected while the store held an enriched row
C6_Witness ==
  /\ last.op = "geo"
  /\ last.status = 400
  /\ \E i \in DOMAIN clicks : nApplied[i] > 0

\* C7: the answer to a report whose cid names a record, and the answer the
\* same payload gets with a non-empty cid that names none, are the same
\* 200 {ok: true}; the second changes no row and creates none
C7_SameAnswerForUnknownToken ==
  [][IsGeoStep /\ Named(Handled.cid) # {} /\ last'.io # "fail"
     => \A cid \in CidValues :
          Truthy(cid) /\ Named(cid) = {}
          => LET twin == apiGeo(cid, Handled.body, now, clicks, "ok")
             IN /\ twin.status = last'.status
                /\ twin.ok = last'.ok
                /\ twin.status = 200
                /\ twin.ok = "true"
                /\ twin.changes = {}
                /\ twin.table = clicks]_vars

\* C8: the report of the page rendered for a capture changes the record of
\* that capture and the record of no other capture
C8_ReportUpdatesOwnCapture ==
  [][IsGeoStep /\ Handled.origin # NoPage
     => last'.changes \subseteq {Handled.origin.id}]_vars

\* The field of the body that each enrichment column is computed from
FieldOf ==
  [precise_lat |-> "lat", precise_lon |-> "lon",
   precise_accuracy_m |-> "accuracy", precise_timestamp |-> "timestamp",
   consented |-> "consented", device_platform |-> "platform",
   device_vendor |-> "vendor", device_language |-> "language",
   device_languages |-> "languages", device_timezone |-> "timezone",
   device_hardware_concurrency |-> "hardwareConcurrency",
   device_memory_gb |-> "deviceMemory", device_screen_w |-> "screenW",
   device_screen_h |-> "screenH", device_color_depth |-> "colorDepth",
   do_not_track |-> "doNotTrack"]

\* The JSON types a field is meant to have; the two flags take any value
FieldTypes(f) ==
  IF f \in {"lat", "lon", "accuracy", "hardwareConcurrency", "deviceMemory",
            "screenW", "screenH", "colorDepth"} THEN {"number"}
  ELSE IF f = "languages" THEN {"array"}
  ELSE IF f = "timestamp" THEN {"number", "string"}
  ELSE IF f \in {"consented", "doNotTrack"}
       THEN {"undefined", "null", "number", "string", "boolean", "array",
             "object"}
  ELSE {"string"}

\* A column holds no value: NULL, or 0 for a flag
IsAbsent(c, v) ==
  \/ v = JSNull
  \/ c \in {"consented", "do_not_track"} /\ v = JSNum(0)

\* Every row outside the rows a report changed keeps its enrichment columns
EnrichmentKept ==
  \A i \in DOMAIN clicks :
    ~IsGeoStep \/ i \notin last'.changes
    => i \in DOMAIN clicks' /\ Enrichment(clicks'[i]) = Enrichment(clicks[i])

\* A report with a token is answered 200 whenever the store accepts the
\* write, whatever the row holds already
NeverRejected ==
  IsGeoStep /\ Truthy(Handled.cid) /\ last'.io = "ok" => last'.status = 200

C10_AllOrNothing ==
  \A i \in DOMAIN clicks :
    IF nApplied[i] = 0
    THEN \A c \in EnrichColumns : clicks[i][c] = ColumnDefault(c)
    ELSE \E body \in Bodies, t \in 0..MaxClock :
           /\ ~NormalizeThrows(body)
           /\ Enrichment(clicks[i]) =
                Enrichment(Normalize(JSStr(<<i>>), body, t))

\* Two updates were applied to one record, which holds a position
C10_Witness ==
  \E i \in DOMAIN clicks :
    /\ nApplied[i] = 2
    /\ clicks[i].precise_lat # JSNull

-----------------------------------------------------------------------------
(* The presentation branch, under SpecCapture *)

-----------------------------------------------------------------------------
(* Further enrichment claims, under Spec *)

\* The capture-time and approximate-location columns of a row, its id too
Capture(row) == [c \in CaptureColumns |-> row[c]]

\* C12: handling a report creates and deletes no row, changes no row but
\* the one whose id equals the cid, and of that row only the enrichment
\* columns; in every step a row that exists keeps its id, its capture-time
\* and its approximate-location columns
C12_UpdateFrame ==
  [][/\ IsGeoStep
        => /\ DOMAIN clicks' = DOMAIN clicks
           /\ Cardinality(Named(Handled.cid)) <= 1
           /\ \A i \in DOMAIN clicks \ Named(Handled.cid) :
                clicks'[i] = clicks[i]
           /\ last'.changes \subseteq Named(Handled.cid)
     /\ \A i \in DOMAIN clicks :
          /\ i \in DOMAIN clicks'
          /\ Capture(clicks'[i]) = Capture(clicks[i])
          /\ clicks'[i].id = JSStr(<<i>>)]_vars

\* A report changed one of two records
C12_Witness ==
  /\ last.op = "geo"
  /\ last.status = 200
  /\ Cardinality(last.changes) = 1
  /\ Cardinality(DOMAIN clicks) = 2
  /\ \E i \in last.changes : clicks[i].precise_lat # JSNull

\* C13: a record that holds a precise latitude or a precise longitude has
\* its consent flag set
C13_PreciseImpliesConsent ==
  \A i \in DOMAIN clicks :
    clicks[i].precise_lat # JSNull \/ clicks[i].precise_lon # JSNull
    => clicks[i].consented = JSNum(1)

\* The record i holds what an earlier application of the report r left
AppliedBefore(i, r) ==
  /\ nApplied[i] >= 1
  /\ \E t \in 0..now :
       Enrichment(clicks[i]) = Enrichment(Normalize(r.cid, r.body, t))

\* C14, as stated: a successful report leaves values computed from the
\* payload, whatever the record held, and applied to a record that holds
\* what the same report left before, it leaves the record as it is
C14_Idempotent ==
  [][IsGeoStep /\ last'.status = 200
     => \A i \in last'.changes :
          /\ Enrichment(clicks'[i]) =
               Enrichment(Normalize(Handled.cid, Handled.body, now))
          /\ AppliedBefore(i, Handled) => clicks'[i] = clicks[i]]_vars

\* C14, amended: a successful report leaves values computed from the
\* payload and the receipt time, whatever the record held; applied to a
\* record that holds what the same report left before, it leaves every
\* column but precise_timestamp as it is, and precise_timestamp too when
\* the payload has a truthy timestamp; without one precise_timestamp
\* becomes the receipt time of this application
C14_IdempotentButReceiptTime ==
  [][IsGeoStep /\ last'.status = 200
     => \A i \in last'.changes :
          /\ Enrichment(clicks'[i]) =
               Enrichment(Normalize(Handled.cid, Handled.body, now))
          /\ AppliedBefore(i, Handled)
             => /\ \A c \in Columns \ {"precise_timestamp"} :
                     clicks'[i][c] = clicks[i][c]
                /\ clicks'[i].precise_timestamp =
                     IF Truthy(Handled.body.timestamp)
                     THEN clicks[i].precise_timestamp
                     ELSE JSStr(toISOString(now))]_vars

\* Two raw reports were applied to the record of the only capture; the
\* second, without timestamp, left the receipt time of a later tick
C14_Witness ==
  /\ nTrack = 1
  /\ pages # {}
  /\ nGeo = 2
  /\ now = 1
  /\ last.op = "geo"
  /\ last.status = 200
  /\ \E i \in last.changes :
       /\ nApplied[i] = 2
       /\ Enrichment(clicks[i]) =
            Enrichment(Normalize(JSStr(<<i>>), ExampleReport, 1))

-----------------------------------------------------------------------------
(* GET /api/last and GET /api/logs *)

\* What Number() gives: the fraction num/den with den a power of ten
\* (den = 1 for an integer), NaN, or Infinity
Finite(num, den) == [kind |-> "finite", num |-> num, den |-> den]
NaN == [kind |-> "NaN"]
Infinity == [kind |-> "Infinity"]

DigitTokens == {Digit(d) : d \in 0..9}
DigitValue(tok) == CHOOSE d \in 0..9 : Digit(d) = tok
IsDigits(s) == \A i \in 1..Len(s) : s[i] \in DigitTokens

RECURSIVE Horner(_)
\* The value of a sequence of decimal digits
Horner(s) ==
  IF s = <<>> THEN 0
  ELSE 10 * Horner(SubSeq(s, 1, Len(s) - 1)) + DigitValue(s[Len(s)])

RECURSIVE Pow10(_)
Pow10(n) == IF n = 0 THEN 1 ELSE 10 * Pow10(n - 1)

RECURSIVE Canon(_)
\* 2.50 and 2.5 are one number
Canon(x) ==
  IF x.den > 1 /\ x.num % 10 = 0
  THEN Canon(Finite(x.num \div 10, x.den \div 10)) ELSE x

\* StringToNumber of an unsigned decimal literal: digits, with at most one
\* point and at least one digit
UnsignedToNumber(s) ==
  LET dots == {i \in 1..Len(s) : s[i] = "."}
  IN IF s = <<"Infinity">> THEN Infinity
     ELSE IF dots = {}
     THEN IF s # <<>> /\ IsDigits(s) THEN Finite(Horner(s), 1) ELSE NaN
     ELSE IF Cardinality(dots) = 1
     THEN LET i == CHOOSE j \in dots : TRUE
              int == SubSeq(s, 1, i - 1)
              frac == SubSeq(s, i + 1, Len(s))
          IN IF IsDigits(int) /\ IsDigits(frac) /\ Len(int) + Len(frac) > 0
             THEN Canon(Finite(Horner(int \o frac), Pow10(Len(frac))))
             ELSE NaN
     ELSE NaN

\* Number(s) of a string, one token a character (and "Infinity"): white
\* space is trimmed, the empty string is 0, a sign may lead
StringToNumber(s) ==
  LET t == Trim(s)
  IN IF t = <<>> THEN Finite(0, 1)
     ELSE IF Head(t) = "-"
     THEN LET x == UnsignedToNumber(Tail(t))
          IN IF x.kind = "finite" THEN Finite(0 - x.num, x.den) ELSE x
     ELSE IF Head(t) = "+" THEN UnsignedToNumber(Tail(t))
     ELSE UnsignedToNumber(t)

\* Number(v) of a value of a parsed query string
ToNumber(v) ==
  CASE v.t = "string" -> StringToNumber(v.v)
    [] v.t = "number" -> Finite(v.v, 1)
    [] v.t = "null" -> Finite(0, 1)
    [] v.t = "boolean" -> Finite(IF v.v THEN 1 ELSE 0, 1)
    [] OTHER -> NaN

\* index.js:516-517: the first of a repeated parameter
FirstOf(raw) == IF IsArray(raw) THEN raw.v[1] ELSE raw

\* index.js:518, 520, 522: Number(limitRaw ?? 100), the default, the cap
EffectiveLimit(raw) ==
  LET v == FirstOf(raw)
      n == IF v \in {JSUndef, JSNull} THEN Finite(100, 1) ELSE ToNumber(v)
  IN IF n.kind # "finite" \/ n.num <= 0 THEN Finite(100, 1)
     ELSE IF n.num > 1000 * n.den THEN Finite(1000, 1)
     ELSE n

\* index.js:519, 521: Number(offsetRaw ?? 0), the default
EffectiveOffset(raw) ==
  LET v == FirstOf(raw)
      n == IF v \in {JSUndef, JSNull} THEN Finite(0, 1) ELSE ToNumber(v)
  IN IF n.kind # "finite" \/ n.num < 0 THEN Finite(0, 1) ELSE n

\* index.js:21: process.env.ADMIN_KEY || 'change-this-key'
ADMIN_KEY == JSStr(<<"change-this-key">>)

\* The clock value a created_at was written at
MaxReadClock == 2
TimeOf(createdAt) ==
  CHOOSE t \in 0..MaxReadClock : toISOString(t) = createdAt.v

\* SQLite's datetime(created_at): the date and time to the second, the
\* fraction dropped; here the count of seconds
datetime(createdAt) == TimeOf(createdAt) \div TicksPerSecond

\* ORDER BY datetime(created_at) DESC: the sequences of all ids in which
\* the statement may visit the rows; rows of one second come in any order
Orderings(table) ==
  LET n == Cardinality(DOMAIN table)
  IN {s \in [1..n -> DOMAIN table] :
        /\ \A j, k \in 1..n : j # k => s[j] # s[k]
        /\ \A j, k \in 1..n :
             j < k => datetime(table[s[j]].created_at)
                        >= datetime(table[s[k]].created_at)}

BestCoords_PreciseIfAny(row) ==
  LET hasPrecise == row.precise_lat # JSNull \/ row.precise_lon # JSNull
  IN IF hasPrecise
     THEN [lat |-> row.precise_lat, lon |-> row.precise_lon,
           accuracy_m |-> row.precise_accuracy_m, source |-> "browser"]
     ELSE [lat |-> row.approx_lat, lon |-> row.approx_lon,
           accuracy_km |-> row.approx_accuracy_km, source |-> "ip"]

\* index.js:491-494 and 535-539: the precise pair when both its parts are
\* there, the approximate pair otherwise
BestCoords(row) ==
  LET hasPrecise == row.precise_lat # JSNull /\ row.precise_lon # JSNull
  IN IF hasPrecise
     THEN [lat |-> row.precise_lat, lon |-> row.precise_lon,
           accuracy_m |-> row.precise_accuracy_m, source |-> "browser"]
     ELSE [lat |-> row.approx_lat, lon |-> row.approx_lon,
           accuracy_km |-> row.approx_accuracy_km, source |-> "ip"]

\* index.js:481-509: GET /api/last, the statement visiting the rows in
\* order and the store answering io
apiLast(table, order, io) ==
  IF io = "fail" THEN [op |-> "last", status |-> 500, ok |-> "false"]
  ELSE IF order = <<>>
  THEN [op |-> "last", status |-> 200, ok |-> "true", data |-> JSNull]
  ELSE LET row == table[order[1]]
       IN [op |-> "last", status |-> 200, ok |-> "true",
           data |-> [id |-> row.id, created_at |-> row.created_at,
                     ip |-> row.ip, ip_chain |-> row.ip_chain,
                     coords |-> BestCoords(row)]]

\* index.js:540-549: one element of data
LogsItem(row) ==
  [id |-> row.id, created_at |-> row.created_at, ip |-> row.ip,
   ip_chain |-> row.ip_chain, best_coords |-> BestCoords(row),
   approx |-> [lat |-> row.approx_lat, lon |-> row.approx_lon,
               accuracy_km |-> row.approx_accuracy_km],
   precise |-> [lat |-> row.precise_lat, lon |-> row.precise_lon,
                accuracy_m |-> row.precise_accuracy_m],
   consented |-> Truthy(row.consented)]

\* LIMIT @limit OFFSET @offset of the visited rows
Page(order, limit, offset) ==
  [k \in 1..(IF Len(order) - offset < 0 THEN 0
             ELSE IF Len(order) - offset < limit THEN Len(order) - offset
             ELSE limit) |-> order[offset + k]]

\* index.js:512-556: GET /api/logs.  SQLite raises an error for a LIMIT or
\* an OFFSET that is no integer, which the catch answers as a failing store.
apiLogs(query, table, order, io) ==
  LET key == FirstOf(query.key)
      limit == EffectiveLimit(query.limit)
      offset == EffectiveOffset(query.offset)
  IN IF ~Truthy(key) \/ key # ADMIN_KEY
     THEN [op |-> "logs", status |-> 401, ok |-> "false"]
     ELSE IF io = "fail" \/ limit.den # 1 \/ offset.den # 1
     THEN [op |-> "logs", status |-> 500, ok |-> "false"]
     ELSE [op |-> "logs", status |-> 200, ok |-> "true",
           data |-> [k \in DOMAIN Page(order, limit.num, offset.num) |->
                       LogsItem(table[Page(order, limit.num, offset.num)[k]])],
           limit |-> limit, offset |-> offset]

\* The server answers GET /api/last
ApiLast(order, io) ==
  /\ req.pc = "idle"
  /\ order \in Orderings(clicks)
  /\ view' = apiLast(clicks, order, io)
  /\ UNCHANGED <<REDIRECT_DEFAULT, now, clicks, req, cookie, pages, inflight,
                 last, nTrack, nGeo, nApplied, startup, vIn, vOut>>

\* The server answers GET /api/logs with the query string query
ApiLogs(query, order, io) ==
  /\ req.pc = "idle"
  /\ order \in Orderings(clicks)
  /\ view' = apiLogs(query, clicks, order, io)
  /\ UNCHANGED <<REDIRECT_DEFAULT, now, clicks, req, cookie, pages, inflight,
                 last, nTrack, nGeo, nApplied, startup, vIn, vOut>>

\* Time passes, into the next second
TickRead ==
  /\ now < MaxReadClock
  /\ now' = now + 1
  /\ UNCHANGED <<REDIRECT_DEFAULT, clicks, req, cookie, pages, inflight, last,
                 nTrack, nGeo, nApplied, view, startup, vIn, vOut>>

\* A report with a latitude and no longitude
LatOnlyReport == MkBody([lat |-> JSNum(5), consented |-> JSBool(TRUE)])

ReadBodies == {LatOnlyReport, PartialReport}

LogsQuery(key, limit, offset) ==
  [key |-> key, limit |-> limit, offset |-> offset]

\* The first page, the second row alone, and a request without the key
ReadQueries ==
  {LogsQuery(ADMIN_KEY, JSUndef, JSUndef),
   LogsQuery(ADMIN_KEY, JSStr(<<"1">>), JSStr(<<"1">>)),
   LogsQuery(JSUndef, JSUndef, JSUndef)}

\* The read specification: captures and reports, read at any time
NextRead ==
  \/ \E r \in EnrichRequests : TrackReceive(r.u, r.peer)
  \/ TrackStep
  \/ GeoStep(ReadBodies, {JSStr(<<"id1">>)})
  \/ \E order \in Orderings(clicks), io \in {"ok", "fail"} : ApiLast(order, io)
  \/ \E q \in ReadQueries, order \in Orderings(clicks), io \in {"ok", "fail"} :
       ApiLogs(q, order, io)
  \/ TickRead

SpecRead == Init /\ [][NextRead]_vars

\* A step in which a read request was answered with new content
IsReadStep(op) == view' # view /\ view'.op = op /\ view'.status = 200

\* C15: GET /api/last answers null data when the store is empty, and
\* otherwise the record with the greatest creation timestamp of all
C15_LastIsNewest ==
  [][IsReadStep("last")
     => IF clicks = <<>> THEN view'.data = JSNull
        ELSE /\ view'.data # JSNull
             /\ \E i \in DOMAIN clicks :
                  /\ view'.data.id = clicks[i].id
                  /\ \A j \in DOMAIN clicks :
                       TimeOf(clicks[j].created_at)
                         <= TimeOf(clicks[i].created_at)]_vars

\* What the claim says of the coordinate returned for a row
ClaimedCoords(row, c) ==
  IF row.precise_lat # JSNull /\ row.precise_lon # JSNull
  THEN /\ c.source = "browser"
       /\ c.lat = row.precise_lat
       /\ c.lon = row.precise_lon
  ELSE /\ c.source = "ip"
       /\ c.lat = row.approx_lat
       /\ c.lon = row.approx_lon

\* C16: the coordinate of GET /api/last and of each row of GET /api/logs is
\* the precise pair with source browser when both precise parts of the
\* record are present, and otherwise the approximate pair with source ip,
\* null when the approximate pair is absent
C16_BestCoordinate ==
  [][/\ IsReadStep("last") /\ view'.data # JSNull
        => \E i \in DOMAIN clicks :
             /\ view'.data.id = clicks[i].id
             /\ ClaimedCoords(clicks[i], view'.data.coords)
     /\ IsReadStep("logs")
        => \A k \in DOMAIN view'.data :
             \E i \in DOMAIN clicks :
               /\ view'.data[k].id = clicks[i].id
               /\ ClaimedCoords(clicks[i], view'.data[k].best_coords)]_vars

\* A list of two rows: one with a precise latitude alone and no approximate
\* pair, answered with source ip and null, one answered with source browser
C16_Witness ==
  /\ view.op = "logs"
  /\ view.status = 200
  /\ Len(view.data) = 2
  /\ \E k \in DOMAIN view.data :
       /\ view.data[k].precise.lat # JSNull
       /\ view.data[k].precise.lon = JSNull
       /\ view.data[k].best_coords.source = "ip"
       /\ view.data[k].best_coords.lat = JSNull
  /\ \E k \in DOMAIN view.data :
       /\ view.data[k].best_coords.source = "browser"
       /\ view.data[k].best_coords.lat = view.data[k].precise.lat

-----------------------------------------------------------------------------
(* The limit and the offset of GET /api/logs alone *)

\* Values of req.query.limit: absent, text, numbers in and out of range,
\* fractions, a repeated parameter, a nested one
LimitInputs ==
  {JSUndef, JSStr(<<>>), JSStr(<<"a", "b", "c">>), JSStr(<<"0">>),
   JSStr(<<"-", "3">>), JSStr(<<"1">>), JSStr(<<" ", "7", " ">>),
   JSStr(<<"1", "0", "0", "0">>), JSStr(<<"1", "0", "0", "1">>),
   JSStr(<<"5", "0", "0", "0">>), JSStr(<<"0", ".", "5">>),
   JSStr(<<"2", ".", "5">>), JSStr(<<"2", ".", "0">>),
   JSStr(<<"Infinity">>), JSStr(<<"1", ".", "2", ".", "3">>),
   JSArr(<<JSStr(<<"5">>), JSStr(<<"9">>)>>), JSObj(TRUE)}

OffsetInputs ==
  {JSUndef, JSStr(<<"0">>), JSStr(<<"-", "1">>), JSStr(<<"3">>),
   JSStr(<<"a", "b", "c">>), JSStr(<<"1", ".", "5">>)}

PagingInputs ==
  {LogsQuery(ADMIN_KEY, l, o) : l \in LimitInputs, o \in OffsetInputs}
  \cup {LogsQuery(k, JSStr(<<"5">>), JSUndef) :
          k \in {JSUndef, JSStr(<<>>), JSStr(<<"guess">>)}}

InitPaging ==
  InitWith({<<"https", ":", "//", "example.com">>}, PagingInputs)

\* One GET /api/logs with the query vIn, the store answering
NextPaging == \E order \in Orderings(clicks) : ApiLogs(vIn, order, "ok")

SpecPaging == InitPaging /\ [][NextPaging]_vars

\* The limit the claim gives for an input: 100 when it is absent, no
\* number or not positive, 1000 above 1000, and else the input
ClaimedLimit(raw) ==
  LET v == FirstOf(raw)
      n == IF v = JSUndef THEN NaN ELSE ToNumber(v)
  IN IF n.kind # "finite" \/ n.num <= 0 THEN Finite(100, 1)
     ELSE IF n.num > 1000 * n.den THEN Finite(1000, 1)
     ELSE n

\* The offset the claim gives for an input: 0 when it is absent, no number
\* or negative, and else the input
ClaimedOffset(raw) ==
  LET v == FirstOf(raw)
      n == IF v = JSUndef THEN NaN ELSE ToNumber(v)
  IN IF n.kind # "finite" \/ n.num < 0 THEN Finite(0, 1) ELSE n

\* C17: the answer to an authorised GET /api/logs echoes the limit and the
\* offset the claim gives for the input, the limit in 1..1000 and the
\* offset not negative
C17_LimitAndOffsetClamped ==
  view.op = "logs" /\ FirstOf(vIn.key) = ADMIN_KEY
  => /\ view.status = 200
     /\ view.limit = ClaimedLimit(vIn.limit)
     /\ view.offset = ClaimedOffset(vIn.offset)
     /\ view.limit.den = 1
     /\ view.limit.num \in 1..1000
     /\ view.offset.den = 1
     /\ view.offset.num >= 0

-----------------------------------------------------------------------------
(* Startup: CREATE TABLE IF NOT EXISTS, the migration, the statements *)

\* index.js:86-98: the columns of the addCol calls, in their order
MigrationColumns ==
  <<"ip_chain", "accept_language", "device_platform", "device_vendor",
    "device_language", "device_languages", "device_timezone",
    "device_hardware_concurrency", "device_memory_gb", "device_screen_w",
    "device_screen_h", "device_color_depth", "do_not_track">>

Listed == {MigrationColumns[j] : j \in DOMAIN MigrationColumns}

\* The store at startup: no table (the empty set), the current schema, the
\* schema before any listed column, the one before the device columns, and
\* schemas that lack some of the first, a middle and the last listed column
SchemaInputs ==
  {{}, Columns, Columns \ Listed,
   Columns \ (Listed \ {"ip_chain", "accept_language"})}
  \cup {Columns \ S : S \in SUBSET {"ip_chain", "device_vendor",
                                    "do_not_track"}}

MaxRuns == 2

addCol_NoCheck(schema, existingCols, name, io) ==
  IF io = "fail" \/ name \in schema
  THEN [threw |-> TRUE, schema |-> schema]
  ELSE [threw |-> FALSE, schema |-> schema \cup {name}]

\* index.js:85: addCol(name, type).  ALTER TABLE throws when the store
\* fails (io), and on a column the table has already.
addCol(schema, existingCols, name, io) ==
  IF name \in existingCols THEN [threw |-> FALSE, schema |-> schema]
  ELSE IF io = "fail" \/ name \in schema
  THEN [threw |-> TRUE, schema |-> schema]
  ELSE [threw |-> FALSE, schema |-> schema \cup {name}]

\* index.js:47-80: CREATE TABLE IF NOT EXISTS clicks
CreateTable ==
  /\ startup.pc = "boot"
  /\ startup' = [startup EXCEPT
                   !.pc = "created",
                   !.schema = IF startup.schema = {} THEN Columns
                              ELSE startup.schema]
  /\ UNCHANGED <<REDIRECT_DEFAULT, now, clicks, req, cookie, pages, inflight,
                 last, nTrack, nGeo, nApplied, view, vIn, vOut>>

\* index.js:84: existingCols, read once
ReadSchema ==
  /\ startup.pc = "created"
  /\ startup' = [startup EXCEPT !.pc = "migrating", !.k = 1,
                                !.existingCols = startup.schema]
  /\ UNCHANGED <<REDIRECT_DEFAULT, now, clicks, req, cookie, pages, inflight,
                 last, nTrack, nGeo, nApplied, view, vIn, vOut>>

\* index.js:86-98: the next addCol call; an exception leaves the try block
\* (index.js:83, 99)
AddCol(io) ==
  /\ startup.pc = "migrating"
  /\ startup.k <= Len(MigrationColumns)
  /\ LET name == MigrationColumns[startup.k]
         res == addCol(startup.schema, startup.existingCols, name, io)
     IN startup' =
          IF res.threw
          THEN [startup EXCEPT !.pc = "migrated",
                               !.failed = startup.failed \cup {name}]
          ELSE [startup EXCEPT !.k = startup.k + 1,
                               !.schema = res.schema,
                               !.added = startup.added
                                           \cup (res.schema \ startup.schema)]
  /\ UNCHANGED <<REDIRECT_DEFAULT, now, clicks, req, cookie, pages, inflight,
                 last, nTrack, nGeo, nApplied, view, vIn, vOut>>

\* index.js:99: the end of the try block
MigrateDone ==
  /\ startup.pc = "migrating"
  /\ startup.k > Len(MigrationColumns)
  /\ startup' = [startup EXCEPT !.pc = "migrated"]
  /\ UNCHANGED <<REDIRECT_DEFAULT, now, clicks, req, cookie, pages, inflight,
                 last, nTrack, nGeo, nApplied, view, vIn, vOut>>

\* index.js:101-130: db.prepare of the two statements, at the top level of
\* the module: it throws for a column the table lacks, and the process ends
Prepare ==
  /\ startup.pc = "migrated"
  /\ startup' = [startup EXCEPT
                   !.pc = IF CaptureColumns \cup EnrichColumns
                               \subseteq startup.schema
                          THEN "serving" ELSE "crashed"]
  /\ UNCHANGED <<REDIRECT_DEFAULT, now, clicks, req, cookie, pages, inflight,
                 last, nTrack, nGeo, nApplied, view, vIn, vOut>>

\* The process is started again on the same store
Restart ==
  /\ startup.pc \in {"serving", "crashed"}
  /\ startup.run < MaxRuns
  /\ startup' = [startup EXCEPT !.pc = "boot", !.run = startup.run + 1,
                                !.k = 0, !.added = {}, !.failed = {},
                                !.prevAdded = startup.added,
                                !.prevFailed = startup.failed]
  /\ UNCHANGED <<REDIRECT_DEFAULT, now, clicks, req, cookie, pages, inflight,
                 last, nTrack, nGeo, nApplied, view, vIn, vOut>>

InitStartup ==
  /\ REDIRECT_DEFAULT = <<"https", ":", "//", "example.com">>
  /\ now = 0
  /\ clicks = <<>>
  /\ req = Idle
  /\ cookie = NoCookie
  /\ pages = {}
  /\ inflight = {}
  /\ last = NoResponse
  /\ nTrack = 0
  /\ nGeo = 0
  /\ nApplied = <<>>
  /\ view = NoView
  /\ \E schema \in SchemaInputs :
       startup = [Serving EXCEPT !.pc = "boot", !.schema = schema,
                                 !.existingCols = {}]
  /\ vIn = JSUndef
  /\ vOut = [done |-> FALSE]

NextStartup ==
  \/ CreateTable
  \/ ReadSchema
  \/ \E io \in {"ok", "fail"} : AddCol(io)
  \/ MigrateDone
  \/ Prepare
  \/ Restart

SpecStartup == InitStartup /\ [][NextStartup]_vars

\* C18: a run of the migration after a run in which no ALTER TABLE failed
\* adds no column and raises no error, and the statements are prepared; a
\* run on the current schema changes nothing; the columns of the table are
\* a set, a second column of one name being an error of ALTER TABLE
C18_MigrationIdempotent ==
  [][/\ startup.run >= 2 /\ startup.prevFailed = {}
        => /\ startup'.schema = startup.schema
           /\ startup'.added = {}
           /\ startup'.failed = {}
           /\ startup'.pc # "crashed"
     /\ startup.schema = Columns
        => /\ startup'.schema = Columns
           /\ startup'.failed = {}
           /\ startup'.pc # "crashed"]_vars

\* The second run ended after a first run that added columns
C18_Witness ==
  /\ startup.run = 2
  /\ startup.pc = "serving"
  /\ startup.prevAdded # {}
  /\ startup.prevFailed = {}
  /\ startup.added = {}

\* C19: at the end of the migration every listed column is in the table or
\* is one whose own ALTER TABLE failed, and startup goes on: the process
\* does not end
C19_IndependentAttempts ==
  /\ startup.pc \in {"migrated", "serving", "crashed"}
     => \A c \in Listed : c \in startup.schema \/ c \in startup.failed
  /\ startup.pc # "crashed"

-----------------------------------------------------------------------------
(* A failing update of POST /api/geo, under Spec *)

\* C20: a report whose update fails in the store is answered 500
\* {ok: false} and nothing else; the step changes no row and nothing but the
\* response and the set of reports in flight; the requests handled after it
\* are served: a report the store accepts is answered 200 {ok: true} and
\* updates the rows its cid names, an insert the store accepts adds its row,
\* and a capture is answered with its page or its redirect
C20_UpdateFailureContained ==
  [][/\ IsGeoStep /\ last'.io = "fail"
        => /\ last' = [NoResponse EXCEPT !.op = "geo", !.status = 500,
                                         !.ok = "false", !.io = "fail"]
           /\ clicks' = clicks
           /\ nApplied' = nApplied
           /\ UNCHANGED <<REDIRECT_DEFAULT, now, req, cookie, pages, nTrack,
                          nGeo, startup>>
     /\ last.op = "geo" /\ last.io = "fail" /\ IsGeoStep /\ last'.io = "ok"
        => /\ last'.status = 200
           /\ last'.ok = "true"
           /\ last'.changes = Named(Handled.cid)
           /\ RowsKeptExcept(Named(Handled.cid))
           /\ \A i \in Named(Handled.cid) :
                Enrichment(clicks'[i]) =
                  Enrichment(Normalize(Handled.cid, Handled.body, now))
     /\ last.op = "geo" /\ last.io = "fail" /\ IsPersistStep /\ req'.inserted
        => OneNewRow
     /\ last.op = "geo" /\ last.io = "fail" /\ IsPresentStep
        => /\ last'.op = "track"
           /\ last'.status \in {200, 302}]_vars

\* The update of a report failed; its cookie names a record that an earlier
\* report had updated, and another report waits to be handled
C20_Witness ==
  /\ last.op = "geo"
  /\ last.status = 500
  /\ last.ok = "false"
  /\ last.io = "fail"
  /\ \E i \in DOMAIN clicks : nApplied[i] = 1 /\ cookie = JSStr(<<i>>)

-----------------------------------------------------------------------------
(* The mark an update leaves on a record, under Spec *)

\* The columns that are NULL until an update is applied
UnenrichedNull == EnrichColumns \ {"consented"}

\* The form of a record that no update was applied to
Unenriched(row) ==
  /\ \A c \in UnenrichedNull : row[c] = JSNull
  /\ row.consented = JSNum(0)

\* The two columns every applied update sets to a value
Marked(row) ==
  /\ row.precise_timestamp # JSNull
  /\ row.do_not_track \in {JSNum(0), JSNum(1)}

\* C21: in every state a record has a precise_timestamp and a do_not_track of
\* 0 or 1 exactly when an update was applied to it, and neither of the two
\* when none was; a record no update was applied to has every enrichment
\* column NULL and consented 0; and a record that has left that form keeps
\* out of it in every later state
C21_EnrichedMark ==
  /\ [](\A i \in DOMAIN clicks :
          /\ Marked(clicks[i]) <=> nApplied[i] >= 1
          /\ nApplied[i] = 0
             => /\ clicks[i].precise_timestamp = JSNull
                /\ clicks[i].do_not_track = JSNull
                /\ Unenriched(clicks[i]))
  /\ [][\A i \in DOMAIN clicks :
          ~Unenriched(clicks[i])
          => i \in DOMAIN clicks' /\ ~Unenriched(clicks'[i])]_vars

\* One record was updated by a report without a position, consent or device
\* field, and another record was never updated
C21_Witness ==
  \E i, j \in DOMAIN clicks :
    /\ nApplied[i] >= 1
    /\ clicks[i].precise_lat = JSNull
    /\ clicks[i].consented = JSNum(0)
    /\ clicks[i].device_platform = JSNull
    /\ clicks[i].do_not_track = JSNum(0)
    /\ nApplied[j] = 0

====
